---- MODULE Spec2Model ----
(***************************************************************************)
(* State-machine model of the Reflection Lab controller                    *)
(* (src/src/article.js, the DOMContentLoaded handler of lines 552-1154,    *)
(* with the classes of src/src/lib.js it uses).                            *)
(*                                                                         *)
(* Conventions.                                                            *)
(*  - JavaScript `null` is the empty tuple Null; the Pointer {x, y} is the *)
(*    pair <<x, y>>; a reflection is the index of its NonaffineReflection  *)
(*    in `reflections` (0 is `null`).                                      *)
(*  - Equation texts are sequences of one-character strings.               *)
(*  - Binding numbers are fixed-point integers in units of 1/FP.           *)
(*  - View origins are fixed-point integers in units of 1/OriginUnit, the  *)
(*    View scale is an integer (wheel deltas are multiples of              *)
(*    SCALE_DAMPING), so that 2 ** scale arithmetic is exact.              *)
(*  - An input handler is one task of the event loop: it runs only when    *)
(*    the microtask queue is empty, and the promise reactions it registers *)
(*    on a compute are run from `microtasks` in FIFO order before the next *)
(*    task.                                                                *)
(***************************************************************************)
EXTENDS Integers, Sequences, FiniteSets, TLC

\* ------------------------------------------------------------------ bounds
\* computes issued under Spec, and under SpecBind
MaxRequests == 2
MaxEdits == 3
\* pan, zoom and reset redraws waiting for a frame
MaxPending == 2
\* |view.scale|, and |view.origin| on each axis
ScaleLimit == 1
MaxOrigin == 2
\* The number of computes in a behaviour with clicks on the swap button.
MaxSwapRequests == 5

\* ------------------------------------------------------- program constants
WIDTH == 640
HEIGHT == 480
SCALE_DAMPING == 200
THRESHOLD == 8
EXPAND == 1
\* Fixed-point denominator of binding numbers (hundredths).
FP == 100

Null == <<>>

RECURSIVE Pow2(_)
Pow2(n) == IF n <= 0 THEN 1 ELSE 2 * Pow2(n - 1)

\* View origins are stored multiplied by OriginUnit = 2 ** ScaleLimit.
OriginUnit == Pow2(ScaleLimit)

Abs(n) == IF n < 0 THEN -n ELSE n
Min(a, b) == IF a <= b THEN a ELSE b
Max(a, b) == IF a >= b THEN a ELSE b

\* The numbers of the page are IEEE doubles: next to the finite values there
\* are Infinity, -Infinity and NaN, here three integers beyond every finite
\* value of the model.
POSITIVE_INFINITY == 100000000
NaN == POSITIVE_INFINITY + POSITIVE_INFINITY
isNaN(x) == x = NaN
isFinite(x) == -POSITIVE_INFINITY < x /\ x < POSITIVE_INFINITY

\* a + b, a - b, a / n (n a positive constant), a > b and a <= b on doubles.
plus(a, b) ==
    IF isNaN(a) \/ isNaN(b) THEN NaN
    ELSE IF ~isFinite(a) THEN (IF ~isFinite(b) /\ a # b THEN NaN ELSE a)
    ELSE IF ~isFinite(b) THEN b
    ELSE a + b
minus(a, b) == plus(a, IF isNaN(b) THEN NaN ELSE -b)
divide(a, n) == IF isFinite(a) THEN a \div n ELSE a
greater(a, b) == ~isNaN(a) /\ ~isNaN(b) /\ a > b
lesseq(a, b) == ~isNaN(a) /\ ~isNaN(b) /\ a <= b

\* Math.min, Math.max and Math.round.
Math_min(a, b) == IF isNaN(a) \/ isNaN(b) THEN NaN ELSE Min(a, b)
Math_max(a, b) == IF isNaN(a) \/ isNaN(b) THEN NaN ELSE Max(a, b)
Math_round(x) == IF isFinite(x) THEN ((x + FP \div 2) \div FP) * FP ELSE x

\* parseFloat of a persisted field: Null is a field that does not parse.
parseFloat(v) == IF v = Null THEN NaN ELSE v[1]

\* The JSON text of a number, parsed back: null for NaN and the infinities.
json_number(x) == IF isFinite(x) THEN <<x>> ELSE Null

\* ----------------------------------------------------------------- strings
Lower == {"a", "b", "c", "d", "e", "f", "g", "h", "i", "j", "k", "l", "m",
          "n", "o", "p", "q", "r", "s", "t", "u", "v", "w", "x", "y", "z"}
Upper == {"A", "B", "C", "D", "E", "F", "G", "H", "I", "J", "K", "L", "M",
          "N", "O", "P", "Q", "R", "S", "T", "U", "V", "W", "X", "Y", "Z"}
Digit == {"0", "1", "2", "3", "4", "5", "6", "7", "8", "9"}
Greek == {"α", "β", "γ", "δ", "ε", "ζ", "η", "θ", "ι", "κ", "λ", "μ", "ν",
          "ξ", "ο", "π", "ρ", "ς", "σ", "τ", "υ", "φ", "χ", "ψ", "ω"}

\* The regular expression class \w (without the unicode flag).
WordChar(c) == c \in Lower \cup Upper \cup Digit \cup {"_"}

\* The regular expression assertion \b between positions i and i + 1 of str.
WordBoundary(str, i) ==
    LET before == i >= 1 /\ WordChar(str[i])
        after == i + 1 <= Len(str) /\ WordChar(str[i + 1])
    IN before # after

\* Equation.variables: the set of matches of /\b[a-z]\b/g.
variables(str) ==
    {str[i] : i \in {j \in 1..Len(str) :
        /\ str[j] \in Lower
        /\ WordBoundary(str, j - 1)
        /\ WordBoundary(str, j)}}

\* String.prototype.localeCompare on single letters: the collation order.
Collation == <<"a", "b", "c", "d", "e", "f", "g", "h", "i", "j", "k", "l", "m",
               "n", "o", "p", "q", "r", "s", "t", "u", "v", "w", "x", "y", "z",
               "α", "β", "γ", "δ", "ε", "ζ", "η", "θ", "ι", "κ", "λ", "μ", "ν",
               "ξ", "ο", "π", "ρ", "σ", "ς", "τ", "υ", "φ", "χ", "ψ", "ω">>
CollationIndex(c) == CHOOSE i \in 1..Len(Collation) : Collation[i] = c
localeCompare(a, b) == CollationIndex(a) - CollationIndex(b)

\* The comparator of all_vars.sort: Greek letters before Latin ones.
compare_vars(a, b) ==
    IF (a \in Greek) # (b \in Greek)
    THEN localeCompare(b, a)
    ELSE localeCompare(a, b)

RECURSIVE sort_vars(_)
sort_vars(S) ==
    IF S = {} THEN <<>>
    ELSE LET first == CHOOSE a \in S : \A b \in S : compare_vars(a, b) <= 0
         IN <<first>> \o sort_vars(S \ {first})

\* follow with the element put before its neighbour.
InsertBefore(seq, prev, v) ==
    LET i == CHOOSE j \in 1..Len(seq) : seq[j] = prev
    IN SubSeq(seq, 1, i - 1) \o <<v>> \o SubSeq(seq, i, Len(seq))

\* neighbour.follow(v) on the children of the container.
InsertAfter(seq, prev, v) ==
    LET i == CHOOSE j \in 1..Len(seq) : seq[j] = prev
    IN SubSeq(seq, 1, i) \o <<v>> \o SubSeq(seq, i + 1, Len(seq))

\* ------------------------------------------------------------------- state
VARIABLES
    phase,              \* position of the DOMContentLoaded handler
    locked, embedded,   \* saved_settings.locked; whether the page is embed.html
    started,            \* whether RustWASMContext.connect has resolved
    mirror_equation, figure_equation, sigma_tau_equation,
    settings,           \* method, threshold, t_offset, s_offset
    bindings,           \* Map name -> Binding
    var_map,            \* Map name -> slider container (its `hidden` class)
    var_container,      \* the sliders' parent: `hidden` class and child order
    view, pointer, drag_origin,
    reflection,         \* the latest NonaffineReflection (0: null)
    reflections,        \* every NonaffineReflection constructed, by index
    microtasks,         \* promise reaction jobs not yet run, FIFO
    raf,                \* requestAnimationFrame callbacks not yet run, FIFO
    canvas, buffer,     \* the visible surface and the saved frame
    inputs,             \* the values of the six equation <input> elements
    hash,               \* location.hash
    calls               \* the requests the task that ran last sent to the backend

vars == <<phase, locked, embedded, started, mirror_equation, figure_equation,
          sigma_tau_equation, settings, bindings, var_map, var_container, view,
          pointer, drag_origin, reflection, reflections, microtasks, raf,
          canvas, buffer, inputs, hash, calls>>

\* The controller's state as one record, so that a handler is a function from
\* the state before it to the state after it. A task starts with no request
\* sent to the backend; view_written records that the handler assigned a
\* field of the View instance `view` referred to when the handler began.
Cur ==
    [phase |-> phase, locked |-> locked, embedded |-> embedded,
     started |-> started, mirror_equation |-> mirror_equation,
     figure_equation |-> figure_equation,
     sigma_tau_equation |-> sigma_tau_equation, settings |-> settings,
     bindings |-> bindings, var_map |-> var_map,
     var_container |-> var_container, view |-> view, pointer |-> pointer,
     drag_origin |-> drag_origin, reflection |-> reflection,
     reflections |-> reflections, microtasks |-> microtasks, raf |-> raf,
     canvas |-> canvas, buffer |-> buffer, inputs |-> inputs, hash |-> hash,
     calls |-> <<>>, view_written |-> FALSE]

Commit(s) ==
    /\ phase' = s.phase
    /\ locked' = s.locked
    /\ embedded' = s.embedded
    /\ started' = s.started
    /\ mirror_equation' = s.mirror_equation
    /\ figure_equation' = s.figure_equation
    /\ sigma_tau_equation' = s.sigma_tau_equation
    /\ settings' = s.settings
    /\ bindings' = s.bindings
    /\ var_map' = s.var_map
    /\ var_container' = s.var_container
    /\ view' = s.view
    /\ pointer' = s.pointer
    /\ drag_origin' = s.drag_origin
    /\ reflection' = s.reflection
    /\ reflections' = s.reflections
    /\ microtasks' = s.microtasks
    /\ raf' = s.raf
    /\ canvas' = s.canvas
    /\ buffer' = s.buffer
    /\ inputs' = s.inputs
    /\ hash' = s.hash
    /\ calls' = s.calls

\* ---------------------------------------------------------------- bindings
\* new Binding(value, min, max, step): the four fields, in units of 1/FP.
Binding(value, min, max, step) ==
    [value |-> value, min |-> min, max |-> max, step |-> step]

SPECIAL_VARIABLES == [transformation |-> "µ", scaling |-> "σ", translation |-> "τ"]

\* The Binding extract_variables creates for a variable that has none.
default_binding(v) ==
    IF v = SPECIAL_VARIABLES.scaling
    THEN Binding(-1 * FP, -2 * FP, 2 * FP, -1 * FP)
    ELSE Binding(0, -256 * FP, 256 * FP, 1 * FP)

\* add_var_slider with the slider container created hidden.
add_var_slider_hidden(v) == [hidden |-> TRUE]

\* add_var_slider(v): the slider container, which starts without `hidden`.
add_var_slider(v) == [hidden |-> FALSE]

\* The loop of extract_variables over all_vars, with prev_var (Null or <<name>>).
RECURSIVE reconcile(_, _, _, _, _, _)
reconcile(all_vars, free, b, vm, children, prev_var) ==
    IF all_vars = <<>>
    THEN [bindings |-> b, var_map |-> vm, children |-> children]
    ELSE
        LET v == Head(all_vars)
            rest == Tail(all_vars)
        IN  IF v \in free
            THEN IF v \notin DOMAIN vm
                 THEN reconcile(rest, free,
                        IF v \in DOMAIN b THEN b ELSE b @@ (v :> default_binding(v)),
                        vm @@ (v :> add_var_slider(v)),
                        IF prev_var # Null
                        THEN InsertAfter(children, prev_var[1], v)
                        ELSE <<v>> \o children,
                        <<v>>)
                 ELSE reconcile(rest, free, b,
                        [vm EXCEPT ![v].hidden = FALSE], children, <<v>>)
            ELSE reconcile(rest, free, b,
                        [vm EXCEPT ![v].hidden = TRUE], children, <<v>>)

\* The free variables currently in the six equation inputs.
free_variables(s) ==
    UNION {variables(eq) : eq \in
        {s.inputs.figure[1], s.inputs.figure[2],
         s.inputs.mirror[1], s.inputs.mirror[2],
         s.inputs.sigma_tau[1], s.inputs.sigma_tau[2]}} \ {"t", "s"}

\* extract_variables with the bindings and sliders of the variables that are
\* no longer free dropped.
extract_variables_pruned(s) ==
    LET free == free_variables(s)
        done == reconcile(sort_vars(free), free,
                          [n \in DOMAIN s.bindings \cap free |-> s.bindings[n]],
                          [n \in DOMAIN s.var_map \cap free |-> s.var_map[n]],
                          SelectSeq(s.var_container.children,
                                    LAMBDA v : v \in free),
                          Null)
    IN [s EXCEPT !.bindings = done.bindings,
                 !.var_map = done.var_map,
                 !.var_container = [hidden |-> free = {},
                                    children |-> done.children]]

\* extract_variables with a fresh binding for a variable whose slider is
\* shown again.
extract_variables_reset(s) ==
    LET free == free_variables(s)
        all_vars == sort_vars(DOMAIN s.var_map \cup free)
        done == reconcile(all_vars, free, s.bindings, s.var_map,
                          s.var_container.children, Null)
        shown_again(n) == /\ n \in free
                          /\ n \in DOMAIN s.var_map
                          /\ s.var_map[n].hidden
    IN [s EXCEPT !.bindings = [n \in DOMAIN done.bindings |->
                                  IF shown_again(n) THEN default_binding(n)
                                  ELSE done.bindings[n]],
                 !.var_map = done.var_map,
                 !.var_container = [hidden |-> free = {},
                                    children |-> done.children]]

\* extract_variables that forgets the sliders that are hidden: a variable that
\* is free again gets a new slider.
extract_variables_recreated(s) ==
    LET free == free_variables(s)
        kept == {n \in DOMAIN s.var_map : ~s.var_map[n].hidden}
        all_vars == sort_vars(kept \cup free)
        done == reconcile(all_vars, free, s.bindings,
                          [n \in kept |-> s.var_map[n]],
                          s.var_container.children, Null)
    IN [s EXCEPT !.bindings = done.bindings,
                 !.var_map = done.var_map,
                 !.var_container = [hidden |-> free = {},
                                    children |-> done.children]]

\* extract_variables(): the state after it (its return value is free_variables).
extract_variables(s) ==
    LET free == free_variables(s)
        all_vars == sort_vars(DOMAIN s.var_map \cup free)
        done == reconcile(all_vars, free, s.bindings, s.var_map,
                          s.var_container.children, Null)
    IN [s EXCEPT !.bindings = done.bindings,
                 !.var_map = done.var_map,
                 !.var_container = [hidden |-> free = {},
                                    children |-> done.children]]

\* -------------------------------------------------------------------- view
\* new View(canvas)
View ==
    [origin |-> <<0, 0>>, width |-> WIDTH, height |-> HEIGHT, scale |-> 0]

\* n / 2 ** scale, in origin units (n in pixels, scale in -ScaleLimit..ScaleLimit).
DivScale(n, scale) == n * Pow2(ScaleLimit - scale)

InBounds(v) ==
    /\ Abs(v.origin[1]) <= MaxOrigin * OriginUnit
    /\ Abs(v.origin[2]) <= MaxOrigin * OriginUnit
    /\ Abs(v.scale) <= ScaleLimit

\* ------------------------------------------------------------------ frames
Frame(r, v) == [data |-> r, view |-> v]
\* Canvas.clear(): a white surface showing no dataset.
Blank == Frame(0, Null)

\* The decimal text of a number n >= 0 / of a fixed-point number.
DigitChars == <<"0", "1", "2", "3", "4", "5", "6", "7", "8", "9">>
RECURSIVE decimal(_)
decimal(n) ==
    IF n < 10 THEN <<DigitChars[n + 1]>>
    ELSE decimal(n \div 10) \o <<DigitChars[(n % 10) + 1]>>

number_text(n) ==
    LET m == Abs(n)
        frac == m % FP
    IN (IF n < 0 THEN <<"-">> ELSE <<>>)
       \o decimal(m \div FP)
       \o (IF frac = 0 THEN <<>>
           ELSE IF frac % 10 = 0 THEN <<".">> \o decimal(frac \div 10)
           ELSE <<".", DigitChars[(frac \div 10) + 1], DigitChars[(frac % 10) + 1]>>)

\* string.replace(new RegExp(`\\b${variable}\\b`, "g"), replacement), from
\* position i on: the matches are those of the string before the replacement.
RECURSIVE replace_all(_, _, _, _)
replace_all(str, i, variable, replacement) ==
    IF i > Len(str) THEN <<>>
    ELSE IF str[i] = variable /\ WordBoundary(str, i - 1) /\ WordBoundary(str, i)
    THEN replacement \o replace_all(str, i + 1, variable, replacement)
    ELSE <<str[i]>> \o replace_all(str, i + 1, variable, replacement)

\* Equation.substitute(bindings) over the names in order; a binding is
\* rendered as its value.
RECURSIVE substitute_each(_, _, _)
substitute_each(str, names, bindings_new) ==
    IF names = <<>> THEN str
    ELSE substitute_each(
            replace_all(str, 1, Head(names),
                        <<"(">> \o number_text(bindings_new[Head(names)]) \o <<")">>),
            Tail(names), bindings_new)

substitute(str, bindings_new) ==
    substitute_each(str, sort_vars(DOMAIN bindings_new), bindings_new)

\* new NonaffineReflection(...): the state of the promise `data`, settled
\* inside the constructor according to whether the backend's answer
\* deserialises, the rendering method, which decides the shape of the data,
\* and the RenderReflectionArgs sent to the backend.
NonaffineReflection(mirror, figure, sigma_tau, bindings_new, v, sett, response) ==
    [ok |-> response = "ok", method |-> sett.method,
     args |-> [view |-> v,
               mirror |-> [i \in 1..2 |-> substitute(mirror[i], bindings_new)],
               figure |-> [i \in 1..2 |-> substitute(figure[i], bindings_new)],
               sigma_tau |-> [i \in 1..2 |-> substitute(sigma_tau[i], bindings_new)],
               method |-> sett.method,
               threshold |-> sett.threshold]]

\* A JSON value of the persisted state is a record [shape, value]: an absent
\* field, a list, a pair of equation texts, a boolean <<b>>, or something else.
\* A numeric field of a binding entry is Null when parseFloat gives NaN for
\* it and <<n>> when it gives the number n / FP.
Absent == [shape |-> "absent", value |-> Null]
Other == [shape |-> "other", value |-> Null]
EmptyHash ==
    [kind |-> "empty", mirror |-> Absent, figure |-> Absent,
     sigma_tau |-> Absent, bindings |-> Absent, locked |-> Absent]

\* The object written for one Binding (article.js 915-920).
encode_binding(b) ==
    [shape |-> "object",
     value |-> json_number(b.value),
     min |-> json_number(b.min),
     max |-> json_number(b.max),
     step |-> json_number(b.step)]

\* saved_state with an entry for every Binding, free or not.
saved_state_unfiltered(s, present_vars) ==
    LET names == sort_vars(DOMAIN s.bindings)
    IN [kind |-> "json",
        mirror |-> [shape |-> "pair", value |-> s.mirror_equation],
        figure |-> [shape |-> "pair", value |-> s.figure_equation],
        sigma_tau |-> [shape |-> "pair", value |-> s.sigma_tau_equation],
        bindings |-> [shape |-> "list", value |->
            [k \in 1..Len(names) |->
                [shape |-> "pair", name |-> names[k],
                 data |-> encode_binding(s.bindings[names[k]])]]],
        locked |-> Absent]

\* The location.hash written by render(true) (article.js 911-923); the
\* entries are listed in slider order.
saved_state(s, present_vars) ==
    LET names == sort_vars(DOMAIN s.bindings \cap present_vars)
    IN [kind |-> "json",
        mirror |-> [shape |-> "pair", value |-> s.mirror_equation],
        figure |-> [shape |-> "pair", value |-> s.figure_equation],
        sigma_tau |-> [shape |-> "pair", value |-> s.sigma_tau_equation],
        bindings |-> [shape |-> "list", value |->
            [k \in 1..Len(names) |->
                [shape |-> "pair", name |-> names[k],
                 data |-> encode_binding(s.bindings[names[k]])]]],
        locked |-> Absent]

\* draw_equations with the surface saved in the buffer whether or not the
\* dataset was plotted.
draw_equations_saved(s, r) ==
    IF r # 0 /\ s.reflections[r].ok
    THEN [s EXCEPT !.canvas = [frame |-> Frame(r, s.view), highlight |-> Null],
                   !.buffer = Frame(r, s.view)]
    ELSE [s EXCEPT !.canvas = [frame |-> Blank, highlight |-> Null],
                   !.buffer = Blank]

\* draw_equations(reflection, start, recomputed), with the promise reactions of
\* reflection.plot it awaits: they run before the next callback or task.
draw_equations(s, r) ==
    IF r # 0 /\ s.reflections[r].ok
    THEN [s EXCEPT !.canvas = [frame |-> Frame(r, s.view), highlight |-> Null],
                   !.buffer = Frame(r, s.view)]
    ELSE [s EXCEPT !.canvas = [frame |-> Blank, highlight |-> Null]]

\* window.requestAnimationFrame(callback)
requestAnimationFrame(s, callback) == [s EXCEPT !.raf = Append(@, callback)]

\* pan with drag_origin left where the drag started.
pan_from_press(s) ==
    LET dragging == s.pointer # Null /\ s.drag_origin # Null
        dx == IF dragging THEN s.pointer[1] - s.drag_origin[1] ELSE 0
        dy == IF dragging THEN s.pointer[2] - s.drag_origin[2] ELSE 0
    IN [s EXCEPT
          !.view = [origin |-> <<s.view.origin[1] - DivScale(dx, s.view.scale),
                                 s.view.origin[2] + DivScale(dy, s.view.scale)>>,
                    width |-> WIDTH, height |-> HEIGHT,
                    scale |-> s.view.scale]]

\* The pan step of render (article.js 886-899).
pan(s) ==
    LET dragging == s.pointer # Null /\ s.drag_origin # Null
        dx == IF dragging THEN s.pointer[1] - s.drag_origin[1] ELSE 0
        dy == IF dragging THEN s.pointer[2] - s.drag_origin[2] ELSE 0
    IN [s EXCEPT
          !.drag_origin = IF dragging THEN s.pointer ELSE @,
          !.view = [origin |-> <<s.view.origin[1] - DivScale(dx, s.view.scale),
                                 s.view.origin[2] + DivScale(dy, s.view.scale)>>,
                    width |-> WIDTH, height |-> HEIGHT,
                    scale |-> s.view.scale]]

\* The recompute branch of render (article.js 901-951).
recompute_reflection(s, response) ==
    LET bindings_new ==
            [n \in DOMAIN s.bindings \cup {"t", "s"} |->
                IF n = "t" THEN s.settings.t_offset
                ELSE IF n = "s" THEN s.settings.s_offset
                ELSE s.bindings[n].value]
        present_vars == free_variables(s)
        s1 == extract_variables(s)
        r == NonaffineReflection(s1.mirror_equation, s1.figure_equation,
                                 s1.sigma_tau_equation, bindings_new, s1.view,
                                 s1.settings, response)
        index == Len(s1.reflections) + 1
    IN [s1 EXCEPT !.hash = saved_state(s1, present_vars),
                  !.reflections = Append(@, [ok |-> r.ok, method |-> r.method]),
                  !.calls = Append(@, r.args),
                  !.microtasks = Append(@, index),
                  !.reflection = index]

\* render with the reflection recomputed whatever `recompute` is.
render_always_recompute(s, recompute, response) ==
    recompute_reflection(pan(s), response)

\* render with the redraw done at once instead of in an animation frame.
render_immediate(s, recompute, response) ==
    IF recompute
    THEN recompute_reflection(pan(s), response)
    ELSE draw_equations(pan(s), s.reflection)

\* render(recompute, start)
render(s, recompute, response) ==
    IF recompute
    THEN recompute_reflection(pan(s), response)
    ELSE requestAnimationFrame(pan(s), [kind |-> "redraw", r |-> 0])

\* then_draw with the draw scheduled whether the promise is fulfilled or not.
then_draw_settled(s, r) ==
    requestAnimationFrame(s, [kind |-> "computed", r |-> r])

\* then_draw with no draw scheduled when the promise is fulfilled.
then_draw_dropped(s, r) == s

\* The reaction `() => requestAnimationFrame(() => draw_equations(r, start, true))`
\* registered on r.data: it runs only if the promise is fulfilled.
then_draw(s, r) ==
    IF s.reflections[r].ok
    THEN requestAnimationFrame(s, [kind |-> "computed", r |-> r])
    ELSE s

\* One animation frame callback.
run_callback(s, callback) ==
    IF callback.kind = "computed"
    THEN draw_equations(s, callback.r)
    ELSE draw_equations(s, s.reflection)

RECURSIVE run_callbacks(_, _)
run_callbacks(s, callbacks) ==
    IF callbacks = <<>> THEN s
    ELSE run_callbacks(run_callback(s, Head(callbacks)), Tail(callbacks))

\* ------------------------------------------------------------------- hover
\* Surface coordinates are fixed-point integers in units of 1/SurfaceUnit.
SurfaceUnit == OriginUnit * OriginUnit
Infinity == -1

\* Graph.adjust_point(view, [px, py])
adjust_point(v, p) ==
    <<(p[1] * OriginUnit - v.origin[1]) * Pow2(v.scale + ScaleLimit)
        + (v.width \div 2) * SurfaceUnit,
      (p[2] * OriginUnit - v.origin[2]) * Pow2(v.scale + ScaleLimit)
        + (v.height \div 2) * SurfaceUnit>>

\* The correspondence tuples [r, f, m_f, m_r] the backend samples (logical
\* coordinates). The quadratic method gives every component: two tuples near
\* the origin and, away from them, tuples whose points lie close to each
\* other in different roles. The linear method leaves the last three
\* components unknown; the rasterisation method leaves them unknown in some
\* tuples.
backend_points(method) ==
    IF method = "quadratic"
    THEN << <<<<0, 0>>, <<4, 4>>, <<2, 2>>, <<2, 2>>>>,
            <<<<40, 0>>, <<40, 4>>, <<40, 2>>, <<40, 2>>>>,
            <<<<100, 0>>, <<130, 50>>, <<130, 25>>, <<115, 25>>>>,
            <<<<160, 50>>, <<100, 6>>, <<160, 25>>, <<130, 28>>>>,
            <<<<100, 10>>, <<190, 50>>, <<190, 25>>, <<190, 30>>>>,
            <<<<250, 0>>, <<220, 3>>, <<250, 25>>, <<235, 25>>>>,
            <<<<220, -3>>, <<250, 40>>, <<235, 40>>, <<235, 45>>>> >>
    ELSE IF method = "linear"
    THEN << <<<<0, 0>>, Null, Null, Null>>,
            <<<<40, 0>>, Null, Null, Null>> >>
    ELSE << <<<<0, 40>>, Null, Null, Null>>,
            <<<<60, 0>>, <<60, 4>>, <<60, 2>>, <<60, 2>>>> >>

\* data.points of a fulfilled reflection.
data_points(refl) == backend_points(refl.method)

\* The square of Math.hypot(x - pointer.x, y - (canvas.height - pointer.y)).
distance2(ptr, q) ==
    LET ex == q[1] - ptr[1] * SurfaceUnit
        ey == q[2] - (HEIGHT - ptr[2]) * SurfaceUnit
    IN ex * ex + ey * ey

\* add_point that keeps the nearest point only.
add_point_nearest(prox, threshold, ptr, q, value) ==
    LET d == distance2(ptr, q)
    IN IF /\ d <= (threshold * SurfaceUnit) * (threshold * SurfaceUnit)
          /\ (prox.distance = Infinity \/ d < prox.distance)
       THEN [points |-> <<value>>, distance |-> d]
       ELSE prox

\* ProximalPoints.add_point(threshold, pointer, [x, y], value)
add_point(prox, threshold, ptr, q, value) ==
    LET d == distance2(ptr, q)
    IN IF d <= (threshold * SurfaceUnit) * (threshold * SurfaceUnit)
       THEN [points |-> Append(prox.points, value),
             distance |-> IF prox.distance = Infinity THEN d
                          ELSE Min(prox.distance, d)]
       ELSE prox

\* prev.distance < cur.distance: of two equal distances the later one wins.
distance_lt(a, b) == a # Infinity /\ (b = Infinity \/ a < b)

\* prev.distance <= cur.distance, on squared distances with Infinity.
distance_leq(a, b) == b = Infinity \/ (a # Infinity /\ a <= b)

\* One pass of the inner loop over `points`: every role's add_point.
RECURSIVE add_points(_, _, _, _)
add_points(prox, threshold, ptr, points) ==
    IF points = <<>> THEN prox
    ELSE add_points(
            [i \in 1..4 |-> add_point(prox[i], threshold, ptr, Head(points)[i],
                                      Head(points))],
            threshold, ptr, Tail(points))

\* prox.reduce((prev, cur) => prev.distance <= cur.distance ? prev : cur)
RECURSIVE closest_of(_, _)
closest_of(prev, rest) ==
    IF rest = <<>> THEN prev
    ELSE closest_of(IF distance_leq(prev.distance, Head(rest).distance)
                    THEN prev ELSE Head(rest), Tail(rest))

\* The loop over thresholds (article.js 768-816): the tuples highlighted, or
\* Null when the loop ends without a find.
RECURSIVE proximity_search(_, _, _, _)
proximity_search(threshold, prox, ptr, points) ==
    IF threshold > THRESHOLD * EXPAND THEN Null
    ELSE LET prox2 == add_points(prox, threshold, ptr, points)
             closest == closest_of(prox2[1], Tail(prox2))
         IN IF closest.distance # Infinity
            THEN closest.points
            ELSE proximity_search(threshold + 1, prox2, ptr, points)

\* known_points with every tuple kept and an unknown component read as [0, 0].
known_points_zero(v, points) ==
    [k \in 1..Len(points) |->
        [i \in 1..4 |-> adjust_point(v, IF points[k][i] = Null THEN <<0, 0>>
                                        ELSE points[k][i])]]

\* The tuples of data.points without unknown components, mapped to the surface.
known_points(v, points) ==
    LET known == SelectSeq(points, LAMBDA triple : \A i \in 1..4 : triple[i] # Null)
    IN [k \in 1..Len(known) |-> [i \in 1..4 |-> adjust_point(v, known[k][i])]]

\* The hover branch of the mousemove handler (article.js 712-818), with the
\* reaction on reflection.data run right after the handler.
hover(s) ==
    IF s.reflection = 0 THEN s
    ELSE
        LET restored == [frame |-> s.buffer, highlight |-> Null]
            refl == s.reflections[s.reflection]
            empty == [points |-> <<>>, distance |-> Infinity]
            found == proximity_search(THRESHOLD, [i \in 1..4 |-> empty],
                        s.pointer, known_points(s.view, data_points(refl)))
        IN IF refl.ok /\ found # Null
           THEN [s EXCEPT !.canvas = [frame |-> s.buffer,
                                      highlight |-> [data |-> s.reflection,
                                                     view |-> s.view,
                                                     points |-> found]]]
           ELSE [s EXCEPT !.canvas = restored]

\* ---------------------------------------------------------- input handlers
\* dblclick with the origin put back and the scale kept.
dblclick_keep_scale(s, button) ==
    IF button = 0 /\ ~s.locked
    THEN render([s EXCEPT !.view.origin = <<0, 0>>], FALSE, "none")
    ELSE s

\* canvas "dblclick" (article.js 647-654)
dblclick(s, button) ==
    IF button = 0 /\ ~s.locked
    THEN render([s EXCEPT !.view = View], FALSE, "none")
    ELSE s

\* canvas "mousedown" (article.js 657-664)
mousedown(s, button, p) ==
    IF button = 0 /\ ~s.locked
    THEN [s EXCEPT !.pointer = p, !.drag_origin = p]
    ELSE s

\* wheel handled on the locked page too.
wheel_while_locked(s, deltaY, shiftKey) ==
    IF ~s.embedded \/ shiftKey
    THEN
        LET scale_next == s.view.scale - deltaY \div SCALE_DAMPING
            offset_x == IF s.pointer # Null THEN s.pointer[1] - WIDTH \div 2 ELSE 0
            offset_y == IF s.pointer # Null THEN s.pointer[2] - HEIGHT \div 2 ELSE 0
            scale_delta == DivScale(1, s.view.scale) - DivScale(1, scale_next)
        IN render([s EXCEPT
                     !.view.origin = <<@[1] + offset_x * scale_delta,
                                       @[2] - offset_y * scale_delta>>,
                     !.view.scale = scale_next],
                  FALSE, "none")
    ELSE s

\* wheel with the vertical offset applied with the sign of the horizontal one.
wheel_same_sign(s, deltaY, shiftKey) ==
    IF (~s.embedded \/ shiftKey) /\ ~s.locked
    THEN
        LET scale_next == s.view.scale - deltaY \div SCALE_DAMPING
            offset_x == IF s.pointer # Null THEN s.pointer[1] - WIDTH \div 2 ELSE 0
            offset_y == IF s.pointer # Null THEN s.pointer[2] - HEIGHT \div 2 ELSE 0
            scale_delta == DivScale(1, s.view.scale) - DivScale(1, scale_next)
        IN render([s EXCEPT
                     !.view.origin = <<@[1] + offset_x * scale_delta,
                                       @[2] + offset_y * scale_delta>>,
                     !.view.scale = scale_next],
                  FALSE, "none")
    ELSE s

\* wheel with the Shift key not required in embedded mode.
wheel_unshifted(s, deltaY, shiftKey) ==
    IF ~s.locked
    THEN
        LET scale_next == s.view.scale - deltaY \div SCALE_DAMPING
            offset_x == IF s.pointer # Null THEN s.pointer[1] - WIDTH \div 2 ELSE 0
            offset_y == IF s.pointer # Null THEN s.pointer[2] - HEIGHT \div 2 ELSE 0
            scale_delta == DivScale(1, s.view.scale) - DivScale(1, scale_next)
        IN render([s EXCEPT
                     !.view.origin = <<@[1] + offset_x * scale_delta,
                                       @[2] - offset_y * scale_delta>>,
                     !.view.scale = scale_next,
                     !.view_written = TRUE],
                  FALSE, "none")
    ELSE s

\* canvas "wheel" (article.js 667-687); deltaY is a multiple of SCALE_DAMPING.
wheel(s, deltaY, shiftKey) ==
    IF (~s.embedded \/ shiftKey) /\ ~s.locked
    THEN
        LET scale_next == s.view.scale - deltaY \div SCALE_DAMPING
            offset_x == IF s.pointer # Null THEN s.pointer[1] - WIDTH \div 2 ELSE 0
            offset_y == IF s.pointer # Null THEN s.pointer[2] - HEIGHT \div 2 ELSE 0
            \* 2 ** -view.scale - 2 ** -scale_next, in origin units
            scale_delta == DivScale(1, s.view.scale) - DivScale(1, scale_next)
        IN render([s EXCEPT
                     !.view.origin = <<@[1] + offset_x * scale_delta,
                                       @[2] - offset_y * scale_delta>>,
                     !.view.scale = scale_next,
                     !.view_written = TRUE],
                  FALSE, "none")
    ELSE s

\* mousemove with the hover search run during a drag too.
mousemove_both(s, p) ==
    LET request == s.pointer # Null /\ s.drag_origin # Null
        prev_pointer == IF s.pointer # Null THEN s.drag_origin ELSE Null
        s1 == [s EXCEPT !.pointer = p, !.drag_origin = prev_pointer]
    IN IF request THEN hover(render(s1, FALSE, "none")) ELSE hover(s1)

\* mousemove with drag_origin kept when the pointer was outside the window.
mousemove_sticky(s, p) ==
    LET request == s.pointer # Null /\ s.drag_origin # Null
        s1 == [s EXCEPT !.pointer = p]
    IN IF request THEN render(s1, FALSE, "none") ELSE hover(s1)

\* window "mousemove" (article.js 691-821)
mousemove(s, p) ==
    LET request == s.pointer # Null /\ s.drag_origin # Null
        prev_pointer == IF s.pointer # Null THEN s.drag_origin ELSE Null
        s1 == [s EXCEPT !.pointer = p, !.drag_origin = prev_pointer]
    IN IF request THEN render(s1, FALSE, "none") ELSE hover(s1)

\* window "mouseup" (article.js 824-832)
mouseup(s, button) ==
    IF button = 0 /\ ~s.locked /\ s.pointer # Null
    THEN [s EXCEPT !.drag_origin = Null]
    ELSE s

\* canvas "mouseleave" (article.js 835)
canvas_mouseleave(s) ==
    [s EXCEPT !.canvas = [frame |-> s.buffer, highlight |-> Null]]

\* window "mouseleave" (article.js 837)
window_mouseleave(s) == [s EXCEPT !.pointer = Null]

\* The "input" handler of the figure, mirror or sigma_tau equation input
\* (article.js 994-1031), after the user set component i of it to text.
equation_input(s, which, i, text, response) ==
    LET s1 == [s EXCEPT !.inputs[which][i] = text]
        s2 == IF which = "figure"
              THEN [s1 EXCEPT !.figure_equation = s1.inputs.figure]
              ELSE IF which = "mirror"
              THEN [s1 EXCEPT !.mirror_equation = s1.inputs.mirror]
              ELSE [s1 EXCEPT !.sigma_tau_equation = s1.inputs.sigma_tau]
    IN render(extract_variables(s2), TRUE, response)

\* The swap button with the input events dispatched to the figure inputs only.
swap_click_figure_only(s, responses) ==
    LET swapped == [s EXCEPT !.inputs.figure = s.inputs.mirror,
                             !.inputs.mirror = s.inputs.figure]
        e1 == equation_input(swapped, "figure", 1, swapped.inputs.figure[1], responses[1])
        e2 == equation_input(e1, "figure", 2, e1.inputs.figure[2], responses[2])
        e3 == equation_input(e2, "figure", 1, e2.inputs.figure[1], responses[3])
    IN equation_input(e3, "figure", 2, e3.inputs.figure[2], responses[4])

\* The "click" handler of the Figure/Mirror button (article.js 1033-1045): the
\* values of the figure and mirror inputs are exchanged, then an "input" event
\* is dispatched to each of the four inputs in turn, and dispatchEvent runs
\* the handler before it returns.
swap_click(s, responses) ==
    LET swapped == [s EXCEPT !.inputs.figure = s.inputs.mirror,
                             !.inputs.mirror = s.inputs.figure]
        e1 == equation_input(swapped, "figure", 1, swapped.inputs.figure[1], responses[1])
        e2 == equation_input(e1, "figure", 2, e1.inputs.figure[2], responses[2])
        e3 == equation_input(e2, "mirror", 1, e2.inputs.mirror[1], responses[3])
    IN equation_input(e3, "mirror", 2, e3.inputs.mirror[2], responses[4])

\* slider_input with the compute issued before the binding takes the value.
slider_input_stale(s, v, value, response) ==
    [render(s, TRUE, response) EXCEPT !.bindings[v].value = value]

\* The "input" handler of the slider of variable v (article.js 1067-1071).
slider_input(s, v, value, response) ==
    render([s EXCEPT !.bindings[v].value = value], TRUE, response)

\* The "input" handlers of the method, threshold, t offset and s offset
\* controls (article.js 966-991).
setting_input(s, key, value, response) ==
    render([s EXCEPT !.settings[key] = value], TRUE, response)

\* The reaction of RustWASMContext.connect (article.js 841-845).
start(s, response) ==
    render([s EXCEPT !.started = TRUE], TRUE, response)

\* The decoding with the value left as parsed: no midpoint and no clamp.
decode_binding_unclamped(data) ==
    LET field(f) == IF data.shape = "object" THEN data[f] ELSE Null
        value == field("value")
        min == field("min")
        max == field("max")
        step == field("step")
    IN  IF min = Null /\ max = Null /\ step = Null /\ value = Null
        THEN Binding(0, -256 * FP, 256 * FP, 1 * FP)
        ELSE
            LET min1 == IF min = Null /\ max = Null THEN -256 * FP
                        ELSE IF min = Null THEN max[1] ELSE min[1]
                max1 == IF min = Null /\ max = Null THEN 256 * FP
                        ELSE IF max = Null THEN min1 ELSE max[1]
                mid == (min1 + max1) \div 2
                min2 == IF min1 > max1 THEN mid ELSE min1
                max2 == IF min1 > max1 THEN mid ELSE max1
                value1 == IF value = Null THEN 0 ELSE value[1]
            IN Binding(value1, min2, max2, 1 * FP)

\* ------------------------------------------------------------ initialisation
\* The decoding of one persisted binding entry's data (article.js 577-612);
\* a field is Null (it does not parse) or <<n>>.
decode_binding(data) ==
    LET field(f) == parseFloat(IF data.shape = "object" THEN data[f] ELSE Null)
        value == field("value")
        min == field("min")
        max == field("max")
        step == field("step")
    IN  IF isNaN(min) /\ isNaN(max) /\ isNaN(step) /\ isNaN(value)
        THEN Binding(0, -256 * FP, 256 * FP, 1 * FP)
        ELSE
            LET min1 == IF isNaN(min) /\ isNaN(max) THEN -256 * FP
                        ELSE IF isNaN(min) THEN max ELSE min
                max1 == IF isNaN(min) /\ isNaN(max) THEN 256 * FP
                        ELSE IF isNaN(max) THEN min1 ELSE max
                mid == divide(plus(min1, max1), 2)
                min2 == IF greater(min1, max1) THEN mid ELSE min1
                max2 == IF greater(min1, max1) THEN mid ELSE max1
                value1 == IF isNaN(value) THEN mid ELSE value
                value2 == Math_max(min2, Math_min(max2, value1))
                hundredth == divide(minus(max2, min2), 100)
                step1 == IF isNaN(step) \/ lesseq(step, 0)
                         THEN IF greater(hundredth, 1 * FP)
                              THEN Math_round(hundredth)
                              ELSE hundredth
                         ELSE step
                step2 == Math_min(divide(minus(max2, min2), 2), step1)
            IN Binding(value2, min2, max2, step2)

\* Whether `bindings.map(([name, data]) => ...)` throws a TypeError.
bindings_throw(field) ==
    \/ field.shape = "other"
    \/ /\ field.shape = "list"
       /\ \E k \in 1..Len(field.value) :
            \/ field.value[k].shape = "null"
            \/ field.value[k].data.shape = "null"

\* new Map(bindings.map(...)): a later entry of a name replaces an earlier one.
RECURSIVE decode_bindings(_, _)
decode_bindings(entries, b) ==
    IF entries = <<>> THEN b
    ELSE LET e == Head(entries)
             d == decode_binding(e.data)
         IN decode_bindings(Tail(entries),
                [n \in DOMAIN b \cup {e.name} |-> IF n = e.name THEN d ELSE b[n]])

\* The default saved_settings (article.js 556-564).
default_settings ==
    [mirror |-> << <<"t">>, <<"(", "t", " ", "/", " ", "1", "0", ")", " ", "^", " ", "2">> >>,
     figure |-> << <<"t">>, <<"x">> >>,
     sigma_tau |-> << <<"-", "s">>, <<"t">> >>,
     bindings |-> [shape |-> "list", value |->
        << [shape |-> "pair", name |-> "x",
            data |-> [shape |-> "object", value |-> <<0>>, min |-> <<-256 * FP>>,
                      max |-> <<256 * FP>>, step |-> <<1 * FP>>]] >>],
     locked |-> FALSE]

\* The state in which the DOMContentLoaded handler starts: location.hash is h.
unloaded(h, emb) ==
    [phase |-> "loading", locked |-> FALSE, embedded |-> emb, started |-> FALSE,
     mirror_equation |-> default_settings.mirror,
     figure_equation |-> default_settings.figure,
     sigma_tau_equation |-> default_settings.sigma_tau,
     settings |-> [threshold |-> 4, method |-> "quadratic",
                   t_offset |-> 0, s_offset |-> 0],
     bindings |-> <<>>, var_map |-> <<>>,
     var_container |-> [hidden |-> FALSE, children |-> <<>>],
     view |-> View, pointer |-> Null, drag_origin |-> Null, reflection |-> 0,
     reflections |-> <<>>, microtasks |-> <<>>, raf |-> <<>>,
     canvas |-> [frame |-> Blank, highlight |-> Null], buffer |-> Blank,
     inputs |-> [figure |-> default_settings.figure,
                 mirror |-> default_settings.mirror,
                 sigma_tau |-> default_settings.sigma_tau],
     hash |-> h, calls |-> <<>>]

\* The DOMContentLoaded handler (article.js 552-1154): Object.assign of the
\* parsed hash over the defaults (a string that is not JSON leaves them), the
\* decoding of the bindings, the construction of the UI and the first
\* extract_variables(). A TypeError ends the handler before the UI is added
\* to the page.
load(s) ==
    LET h == s.hash
        given(f) == h.kind = "json" /\ h[f].shape # "absent"
        equation(f) == IF given(f) THEN h[f] ELSE
                        [shape |-> "pair", value |-> default_settings[f]]
        bfield == IF given("bindings") THEN h.bindings ELSE default_settings.bindings
        lock == IF given("locked") THEN h.locked.value[1] ELSE default_settings.locked
        throws == \/ bindings_throw(bfield)
                  \/ \E f \in {"mirror", "figure", "sigma_tau"} :
                        equation(f).shape # "pair"
    IN  IF throws THEN [s EXCEPT !.phase = "crashed"]
        ELSE extract_variables(
                [s EXCEPT !.phase = "interactive",
                          !.locked = lock,
                          !.mirror_equation = equation("mirror").value,
                          !.figure_equation = equation("figure").value,
                          !.sigma_tau_equation = equation("sigma_tau").value,
                          !.bindings = decode_bindings(bfield.value, <<>>),
                          !.inputs = [figure |-> equation("figure").value,
                                      mirror |-> equation("mirror").value,
                                      sigma_tau |-> equation("sigma_tau").value]])

\* ------------------------------------------------------------------ actions
Install(s) ==
    /\ phase = s.phase
    /\ locked = s.locked
    /\ embedded = s.embedded
    /\ started = s.started
    /\ mirror_equation = s.mirror_equation
    /\ figure_equation = s.figure_equation
    /\ sigma_tau_equation = s.sigma_tau_equation
    /\ settings = s.settings
    /\ bindings = s.bindings
    /\ var_map = s.var_map
    /\ var_container = s.var_container
    /\ view = s.view
    /\ pointer = s.pointer
    /\ drag_origin = s.drag_origin
    /\ reflection = s.reflection
    /\ reflections = s.reflections
    /\ microtasks = s.microtasks
    /\ raf = s.raf
    /\ canvas = s.canvas
    /\ buffer = s.buffer
    /\ inputs = s.inputs
    /\ hash = s.hash
    /\ calls = s.calls

\* The number of pan, zoom and reset redraws waiting for the next frame.
Redraws(callbacks) ==
    Cardinality({k \in 1..Len(callbacks) : callbacks[k].kind = "redraw"})

\* The bounds of the model, on the state a handler leaves.
Bounded(s) ==
    /\ Redraws(s.raf) <= MaxPending
    /\ InBounds(s.view)

Step(s) == Bounded(s) /\ Commit(s)

\* A task of the event loop may run: the page is up and no reaction is queued.
Idle == phase = "interactive" /\ microtasks = <<>>
\* The equation inputs and the settings controls are on the page.
Editable == Idle /\ ~embedded

Responses == {"ok", "bad"}
Buttons == {0, 2}

Load ==
    /\ phase = "loading"
    /\ Commit(load(Cur))

\* The actions that issue a compute take the bound on the number of computes.
Start(limit) ==
    /\ Idle /\ ~started
    /\ Len(reflections) < limit
    /\ \E response \in Responses : Step(start(Cur, response))

EquationInput(limit, targets, texts) ==
    /\ Editable
    /\ Len(reflections) < limit
    /\ \E target \in targets, text \in texts, response \in Responses :
        /\ inputs[target[1]][target[2]] # text
        /\ Step(equation_input(Cur, target[1], target[2], text, response))

\* The browser keeps the value of a range input within its min and max.
SliderInput(limit, values) ==
    /\ Idle
    /\ Len(reflections) < limit
    /\ \E v \in DOMAIN var_map, value \in values, response \in Responses :
        /\ ~var_map[v].hidden
        /\ bindings[v].min <= value /\ value <= bindings[v].max
        /\ bindings[v].value # value
        /\ Step(slider_input(Cur, v, value, response))

SettingInput(limit, choices) ==
    /\ Editable
    /\ Len(reflections) < limit
    /\ \E choice \in choices, response \in Responses :
        /\ settings[choice[1]] # choice[2]
        /\ Step(setting_input(Cur, choice[1], choice[2], response))

DblClick ==
    /\ Idle
    /\ \E button \in Buttons : Step(dblclick(Cur, button))

MouseDown(points) ==
    /\ Idle
    /\ \E button \in Buttons, p \in points : Step(mousedown(Cur, button, p))

Wheel(deltas) ==
    /\ Idle
    /\ \E deltaY \in deltas, shiftKey \in BOOLEAN :
        Step(wheel(Cur, deltaY, shiftKey))

MouseMove(points) ==
    /\ Idle
    /\ \E p \in points : Step(mousemove(Cur, p))

MouseUp ==
    /\ Idle
    /\ \E button \in Buttons : Step(mouseup(Cur, button))

CanvasMouseLeave ==
    /\ Idle
    /\ Step(canvas_mouseleave(Cur))

WindowMouseLeave ==
    /\ Idle
    /\ Step(window_mouseleave(Cur))

\* A click on the swap button issues four computes.
SwapClick(limit) ==
    /\ Editable
    /\ Len(reflections) + 4 <= limit
    /\ \E responses \in [1..4 -> Responses] : Step(swap_click(Cur, responses))

\* The microtask checkpoint after a task: the oldest reaction runs.
RunMicrotask ==
    /\ phase = "interactive"
    /\ microtasks # <<>>
    /\ Commit(then_draw([Cur EXCEPT !.microtasks = Tail(@)], Head(microtasks)))

\* The host's next paint opportunity: every callback registered runs, in order.
AnimationFrame ==
    /\ Idle
    /\ raf # <<>>
    /\ Commit(run_callbacks([Cur EXCEPT !.raf = <<>>], raf))

\* ----------------------------------------------------------- specifications
Locked == [shape |-> "bool", value |-> <<TRUE>>]
StartHashes == {EmptyHash, [EmptyHash EXCEPT !.kind = "json", !.locked = Locked]}

\* The page after the DOMContentLoaded handler, main or embedded, unlocked or
\* locked.
Init ==
    \E h \in StartHashes, emb \in BOOLEAN : Install(load(unloaded(h, emb)))

\* Spec, the controller: every handler, with pointer positions and wheel
\* deltas that move the view, and one input of each kind of edit.
Points == {<<320, 240>>, <<324, 236>>}
WheelDeltas == {-200}
EditTargets == {<<"figure", 2>>}
EqTexts == {<<"t">>, <<"x">>}
SliderValues == {3 * FP}
SettingChoices == {<<"method", "linear">>}

Next ==
    \/ Start(MaxRequests)
    \/ EquationInput(MaxRequests, EditTargets, EqTexts)
    \/ SliderInput(MaxRequests, SliderValues)
    \/ SettingInput(MaxRequests, SettingChoices)
    \/ DblClick
    \/ MouseDown(Points)
    \/ Wheel(WheelDeltas)
    \/ MouseMove(Points)
    \/ MouseUp
    \/ CanvasMouseLeave
    \/ WindowMouseLeave
    \/ RunMicrotask
    \/ AnimationFrame

Spec == Init /\ [][Next]_vars

\* SpecBind, the binding store: edits of every equation input that add and
\* remove variables, slider movements, and the reset gesture between them.
BindTargets == {<<"figure", 2>>, <<"mirror", 2>>, <<"sigma_tau", 1>>}
BindTexts == {<<"t">>, <<"x">>, <<"a", "+", "x">>}
BindValues == {0, 3 * FP}

NextBind ==
    \/ Start(MaxEdits)
    \/ EquationInput(MaxEdits, BindTargets, BindTexts)
    \/ SliderInput(MaxEdits, BindValues)
    \/ SettingInput(MaxEdits, SettingChoices)
    \/ DblClick
    \/ RunMicrotask
    \/ AnimationFrame

SpecBind == Init /\ [][NextBind]_vars

\* SpecLoad, the session state: the page is loaded from a persisted state
\* whose "x" entry has each field absent or a number, or from a malformed
\* one, and then starts.
RawNumbers == {Null, <<-5 * FP>>, <<0>>, <<1 * FP>>, <<5 * FP>>}
Entry(name, data) == [shape |-> "pair", name |-> name, data |-> data]
NullEntry == [shape |-> "null", name |-> "", data |-> [shape |-> "null"]]
List(entries) == [shape |-> "list", value |-> entries]
Json(field, v) == [EmptyHash EXCEPT !.kind = "json", ![field] = v]

BindingHashes ==
    { Json("bindings", List(<< Entry("x",
        [shape |-> "object", value |-> value, min |-> min, max |-> max,
         step |-> step]) >>)) :
      value \in RawNumbers, min \in RawNumbers, max \in RawNumbers,
      step \in RawNumbers }

MalformedHashes ==
    { [EmptyHash EXCEPT !.kind = "garbage"],
      Json("bindings", Other),
      Json("bindings", List(<< NullEntry >>)),
      Json("bindings", List(<< Entry("x", [shape |-> "null"]) >>)),
      Json("bindings", List(<< Entry("x", [shape |-> "primitive"]) >>)),
      Json("bindings", List(<<>>)),
      Json("mirror", Other),
      Json("figure", Other),
      Json("sigma_tau", Other) }

LoadHashes == {EmptyHash} \cup BindingHashes \cup MalformedHashes

InitLoad == \E h \in LoadHashes : Install(unloaded(h, FALSE))

NextLoad ==
    \/ Load
    \/ Start(MaxRequests)
    \/ RunMicrotask
    \/ AnimationFrame

SpecLoad == InitLoad /\ [][NextLoad]_vars

\* SpecSwap, the swap button: clicks on it between the start, edits of the
\* second mirror input that add and remove a variable, and slider movements.
SwapTargets == {<<"mirror", 2>>}
SwapTexts == {<<"a">>, <<"x">>}

NextSwap ==
    \/ Start(MaxSwapRequests)
    \/ EquationInput(MaxSwapRequests, SwapTargets, SwapTexts)
    \/ SliderInput(MaxSwapRequests, SliderValues)
    \/ SwapClick(MaxSwapRequests)
    \/ RunMicrotask
    \/ AnimationFrame

SpecSwap == Init /\ [][NextSwap]_vars

\* SpecCodec, the decoding of persisted bindings over all doubles: the fields
\* of the entry are finite numbers, numbers too large for a double (1e999 is
\* parsed as Infinity), or do not parse.
CodecNumbers == RawNumbers \cup {<<POSITIVE_INFINITY>>, <<-POSITIVE_INFINITY>>}

CodecHashes ==
    { Json("bindings", List(<< Entry("x",
        [shape |-> "object", value |-> value, min |-> min, max |-> max,
         step |-> step]) >>)) :
      value \in CodecNumbers, min \in CodecNumbers, max \in CodecNumbers,
      step \in CodecNumbers }

InitCodec == \E h \in CodecHashes : Install(unloaded(h, FALSE))

NextCodec == Load

SpecCodec == InitCodec /\ [][NextCodec]_vars

\* SpecView, the coordinate view: presses, moves, releases, wheel turns in
\* both directions and resets at pointer positions around the centre, in the
\* unlocked and the locked page, before the backend is connected.
ViewPoints == {<<320, 240>>, <<321, 239>>, <<322, 241>>}
ViewDeltas == {-200, 200}

NextView ==
    \/ DblClick
    \/ MouseDown(ViewPoints)
    \/ Wheel(ViewDeltas)
    \/ MouseMove(ViewPoints)
    \/ MouseUp
    \/ CanvasMouseLeave
    \/ WindowMouseLeave
    \/ AnimationFrame

SpecView == Init /\ [][NextView]_vars

\* SpecText, the equation texts: edits that put Latin and Greek variables and
\* a function name into the equations, in a session that starts with the
\* default bindings or with a saved binding of the scaling variable.
TextHashes ==
    {EmptyHash,
     Json("bindings", List(<< Entry(SPECIAL_VARIABLES.scaling,
        [shape |-> "object", value |-> <<1 * FP>>, min |-> Null, max |-> Null,
         step |-> Null]) >>))}
TextTargets == {<<"figure", 2>>, <<"mirror", 2>>}
TextTexts ==
    {<<"i", "+", "n">>, <<"s", "i", "n", "(", "x", ")">>, <<"x", "-", "σ">>,
     <<"b">>, <<"a", "+", "c">>}

InitText == \E h \in TextHashes : Install(load(unloaded(h, FALSE)))

NextText ==
    \/ Start(MaxEdits)
    \/ EquationInput(MaxEdits, TextTargets, TextTexts)
    \/ RunMicrotask
    \/ AnimationFrame

SpecText == InitText /\ [][NextText]_vars

\* SpecEdit, the edits: one input of every kind of edit (an equation input,
\* a slider, the method, threshold and t offset controls), with zooms and
\* resets of the view between them.
EditChoices == {<<"method", "linear">>, <<"threshold", 16>>, <<"t_offset", FP \div 2>>}

NextEdit ==
    \/ Start(MaxEdits)
    \/ EquationInput(MaxEdits, EditTargets, EqTexts)
    \/ SliderInput(MaxEdits, SliderValues)
    \/ SettingInput(MaxEdits, EditChoices)
    \/ DblClick
    \/ Wheel(WheelDeltas)
    \/ RunMicrotask
    \/ AnimationFrame

SpecEdit == Init /\ [][NextEdit]_vars

\* SpecLive, the round trip under fairness: computes issued by the start, by
\* equation edits and by a slider, with zooms and resets of the view between them. A
\* reaction of a settled promise runs at the microtask checkpoint that follows
\* the task that queued it, and the host runs the animation frame callbacks at
\* its next paint opportunity.
NextLive ==
    \/ Start(MaxRequests)
    \/ EquationInput(MaxRequests, EditTargets, EqTexts)
    \/ SliderInput(MaxRequests, SliderValues)
    \/ DblClick
    \/ Wheel(WheelDeltas)
    \/ RunMicrotask
    \/ AnimationFrame

SpecLive ==
    /\ Init
    /\ [][NextLive]_vars
    /\ WF_vars(RunMicrotask)
    /\ WF_vars(AnimationFrame)

\* SpecHover, the proximity search: pointer moves over the points of datasets
\* of every method, at the positions of sampled points, between points of two
\* roles and just outside the hover radius, under the default and a zoomed
\* view.
HoverPoints ==
    {<<320, 240>>, <<324, 236>>, <<420, 237>>, <<420, 234>>, <<420, 249>>,
     <<540, 240>>, <<380, 240>>, <<320, 200>>}
HoverChoices == {<<"method", "linear">>, <<"method", "rasterisation">>}

NextHover ==
    \/ Start(MaxRequests)
    \/ SettingInput(MaxRequests, HoverChoices)
    \/ MouseMove(HoverPoints)
    \/ Wheel(WheelDeltas)
    \/ DblClick
    \/ CanvasMouseLeave
    \/ RunMicrotask
    \/ AnimationFrame

SpecHover == Init /\ [][NextHover]_vars

\* ------------------------------------------------------------------ claims
\* The most recent dataset whose compute resolved, 0 when there is none.
LastGood ==
    LET good == {r \in 1..Len(reflections) : reflections[r].ok}
    IN IF good = {} THEN 0 ELSE CHOOSE r \in good : \A q \in good : q <= r

\* A step in which the animation frame callbacks run.
FrameStep == raf # <<>> /\ raf' = <<>>
\* Nothing is queued: every result has arrived and every scheduled draw has run.
Settled == microtasks = <<>> /\ raf = <<>>
\* A step that issues a compute.
ComputeStep == Len(reflections') > Len(reflections)

\* C1: last request wins. Once every issued request has been processed, the
\* visible frame and the current dataset are those of the latest request that
\* resolved, and no animation frame leaves on the surface the result of a
\* request that is not the latest issued one.
C1_LastRequestWins ==
    [][ /\ (Settled' /\ reflection' # 0 /\ reflections'[reflection'].ok
                /\ canvas'.frame # Blank)
            => canvas'.frame.data = reflection'
        /\ FrameStep => canvas'.frame.data \in {0, reflection'} ]_vars

\* C2: a compute that is rejected leaves the surface exactly as it was. The
\* step that issues it and the step in which its result arrives write neither
\* the surface nor the pixel buffer and schedule no draw, and no draw of a
\* rejected compute is ever scheduled.
C2_RejectionKeepsFrame ==
    [][ /\ (ComputeStep /\ ~reflections'[Len(reflections')].ok)
            => (canvas' = canvas /\ buffer' = buffer /\ raf' = raf)
        /\ (microtasks # <<>> /\ ~reflections[Head(microtasks)].ok)
            => (canvas' = canvas /\ buffer' = buffer /\ raf' = raf)
        /\ \A k \in 1..Len(raf') :
            raf'[k].kind = "computed" => reflections'[raf'[k].r].ok ]_vars

\* The latest compute was rejected, its rejection has been processed, and the
\* surface still shows the frame of the dataset computed before it.
C2_Witness ==
    /\ reflection # 0
    /\ ~reflections[reflection].ok
    /\ Settled
    /\ canvas.frame.data # 0
    /\ canvas.frame.data = LastGood

\* C3: a redraw after a pan, zoom or reset draws the most recent dataset whose
\* compute resolved, and a surface that shows a frame never becomes blank.
C3_RedrawKeepsLastGood ==
    [][ /\ (FrameStep /\ \E k \in 1..Len(raf) : raf[k].kind = "redraw")
            => canvas'.frame.data = LastGood
        /\ canvas.frame # Blank => canvas'.frame # Blank ]_vars

\* A pointer or wheel gesture on the canvas or the window.
Gesture ==
    \/ DblClick
    \/ MouseDown(Points)
    \/ Wheel(WheelDeltas)
    \/ MouseMove(Points)
    \/ MouseUp
    \/ CanvasMouseLeave
    \/ WindowMouseLeave

\* C4: no gesture issues a compute; a step that issues one is the start-up
\* or an edit of an equation, a binding or a setting.
C4_GesturesNeverCompute ==
    [][ /\ Gesture => (reflections' = reflections /\ microtasks' = microtasks
                        /\ reflection' = reflection)
        /\ ComputeStep => \/ inputs' # inputs
                          \/ bindings' # bindings
                          \/ settings' # settings
                          \/ started' # started ]_vars

\* A frame redrawn under a panned or zoomed view, when the backend has been
\* invoked once.
C4_Witness ==
    /\ Len(reflections) = 1
    /\ canvas.frame.data = 1
    /\ canvas.frame.view # View
    /\ view # View

\* C9: no handler writes the surface; only an animation frame callback does.
C9_NoSynchronousWrite ==
    [][ ~FrameStep => canvas' = canvas ]_vars

\* C9, amended: outside the animation frame callbacks no dataset is plotted
\* and the pixel buffer is not written; the only synchronous writes to the
\* surface are those of the hover move and of the pointer leaving the canvas,
\* which copy the saved frame back from the buffer (the hover move then adds
\* its highlight) and schedule nothing.
C9_OnlyHoverWritesSynchronously ==
    [][ ~FrameStep =>
            /\ buffer' = buffer
            /\ \/ canvas' = canvas
               \/ /\ canvas'.frame = buffer
                  /\ raf' = raf
                  /\ reflections' = reflections ]_vars

\* The hover move has drawn a highlight on the surface while no draw was
\* scheduled.
C9_Witness ==
    /\ canvas.highlight # Null
    /\ raf = <<>>

\* C10: at most one draw is pending at any time.
C10_AtMostOnePending == Len(raf) <= 1

\* C5: after the session state is decoded, every binding has
\* min <= value <= max and step > 0.
C5_DecodedBindingsValid ==
    phase = "interactive" =>
        \A n \in DOMAIN bindings :
            /\ bindings[n].min <= bindings[n].value
            /\ bindings[n].value <= bindings[n].max
            /\ bindings[n].step > 0

\* C6: whatever the persisted session state holds, loading ends with the
\* page built.
C6_LoadNeverFatal == phase # "crashed"

\* C7: the binding store and the slider map only grow: no step removes a name
\* from either.
C7_BindingStoreOnlyGrows ==
    [][ /\ DOMAIN bindings \subseteq DOMAIN bindings'
        /\ DOMAIN var_map \subseteq DOMAIN var_map' ]_vars

\* A variable that is no longer free in any equation still has its binding
\* and its slider, which is hidden.
C7_Witness ==
    \E n \in DOMAIN var_map :
        /\ var_map[n].hidden
        /\ n \in DOMAIN bindings
        /\ n \notin free_variables(Cur)

\* C8: the binding of a variable whose slider is hidden is left as it is by
\* every step, the one that shows the slider again included, so the variable
\* comes back with the value, min, max and step it had.
C8_HiddenBindingKept ==
    [][ \A n \in DOMAIN var_map :
            var_map[n].hidden =>
                /\ n \in DOMAIN bindings'
                /\ bindings'[n] = bindings[n] ]_vars

\* A variable whose slider is hidden holds a value set on the slider, in a
\* state from which an edit of an equation can bring the variable back.
C8_Witness ==
    /\ \E n \in DOMAIN var_map :
        /\ var_map[n].hidden
        /\ bindings[n].value # default_binding(n).value
    /\ Editable
    /\ Len(reflections) < MaxEdits

\* The logical point, in origin units, that the view maps to the surface
\* position of the pointer; the pointer's y runs downwards, logical y upwards.
LogicalUnder(v, ptr) ==
    <<v.origin[1] + DivScale(ptr[1] - WIDTH \div 2, v.scale),
      v.origin[2] - DivScale(ptr[2] - HEIGHT \div 2, v.scale)>>

\* C11: zoom about the pointer. A wheel event handled while unlocked leaves
\* the logical point under the known pointer where it was, on both axes, and
\* the new scale is the old scale minus deltaY / 200.
C11_ZoomAboutPointer ==
    [][ \A deltaY \in ViewDeltas, shiftKey \in BOOLEAN :
            ( /\ Idle
              /\ (~embedded \/ shiftKey) /\ ~locked
              /\ Step(wheel(Cur, deltaY, shiftKey)) )
            => /\ view'.scale = view.scale - deltaY \div 200
               /\ pointer # Null =>
                    LogicalUnder(view', pointer) = LogicalUnder(view, pointer)
      ]_vars

\* The view has been zoomed from the default with the pointer off the centre
\* on both axes, and the logical point under the pointer is the one the
\* default view has there.
C11_Witness ==
    /\ pointer # Null
    /\ pointer[1] # WIDTH \div 2
    /\ pointer[2] # HEIGHT \div 2
    /\ view.scale # 0
    /\ view.origin # <<0, 0>>
    /\ LogicalUnder(view, pointer) = LogicalUnder(View, pointer)

\* The logical point, in origin units, that a drag holds: the one the view
\* puts at the offset of drag_origin from the centre.
DragAnchor(v, d) ==
    <<v.origin[1] + DivScale(d[1], v.scale),
      v.origin[2] - DivScale(d[2], v.scale)>>

\* C12: drag to pan. A press leaves the view alone and starts the drag at the
\* pointer; every move of a drag leaves the scale alone, moves the origin by
\* (-(p.x - q.x) / 2^s, +(p.y - q.y) / 2^s) for the move from q to p, and
\* leaves the drag at p, so the point the drag holds never changes and the
\* origin after any number of moves is the origin at the press plus
\* (-(pn.x - p0.x) / 2^s, +(pn.y - p0.y) / 2^s).
C12_DragToPan ==
    [][ \A p \in ViewPoints :
          /\ ( /\ Idle /\ ~locked
               /\ Step(mousedown(Cur, 0, p)) )
             => (view' = view /\ pointer' = p /\ drag_origin' = p)
          /\ ( /\ Idle /\ pointer # Null /\ drag_origin # Null
               /\ Step(mousemove(Cur, p)) )
             => /\ view'.scale = view.scale
                /\ view'.origin =
                    <<view.origin[1] - DivScale(p[1] - drag_origin[1], view.scale),
                      view.origin[2] + DivScale(p[2] - drag_origin[2], view.scale)>>
                /\ pointer' = p /\ drag_origin' = p
                /\ DragAnchor(view', drag_origin') = DragAnchor(view, drag_origin)
      ]_vars

\* A drag in progress at scale 0 whose moves, two of them not yet drawn, have
\* taken the origin from (0, 0) to the offset of the pointer from a press
\* point p0.
C12_Witness ==
    /\ pointer # Null /\ drag_origin = pointer
    /\ view.scale = 0
    /\ Len(raf) >= 2
    /\ \E p0 \in ViewPoints :
        /\ p0[1] # pointer[1] /\ p0[2] # pointer[2]
        /\ view.origin = <<-DivScale(pointer[1] - p0[1], 0),
                           DivScale(pointer[2] - p0[2], 0)>>

\* C13: reset. A double-click handled while unlocked, whatever the origin
\* and the scale and whether or not a drag is in progress, leaves the view
\* the default one, origin (0, 0) and scale 0, and schedules a redraw.
C13_ResetToDefault ==
    [][ ( /\ Idle /\ ~locked
          /\ Step(dblclick(Cur, 0)) )
        => /\ view' = View
           /\ view'.origin = <<0, 0>> /\ view'.scale = 0
           /\ raf' = Append(raf, [kind |-> "redraw", r |-> 0]) ]_vars

\* The view is the default one during a drag, with the redraw of the reset
\* scheduled behind that of an earlier gesture.
C13_Witness ==
    /\ view = View
    /\ pointer # Null /\ drag_origin # Null
    /\ Len(raf) >= 2
    /\ raf[Len(raf)] = [kind |-> "redraw", r |-> 0]

\* C14: when the page is locked, no step changes the origin or the scale of
\* the view or starts a drag, and a slider input still sets the value of its
\* binding and issues a compute.
C14_LockedViewFixed ==
    [][ locked =>
          /\ view'.origin = view.origin
          /\ view'.scale = view.scale
          /\ drag_origin = Null /\ drag_origin' = Null
          /\ \A v \in DOMAIN var_map, value \in SliderValues,
                response \in Responses :
                ( /\ Idle /\ ~var_map[v].hidden
                  /\ Step(slider_input(Cur, v, value, response)) )
                => /\ bindings'[v].value = value
                   /\ Len(reflections') = Len(reflections) + 1 ]_vars

\* The locked page after pointer events and a slider input: the pointer is
\* known, the view is the default one, no drag is in progress, and the
\* binding holds the slider's value, for which a compute was issued.
C14_Witness ==
    /\ locked
    /\ pointer # Null
    /\ view = View /\ drag_origin = Null
    /\ "x" \in DOMAIN bindings
    /\ bindings["x"].value = 3 * FP
    /\ Len(reflections) >= 1

\* The invariant of a Binding.
ValidBinding(b) == b.min <= b.value /\ b.value <= b.max /\ b.step > 0

\* C15: every binding of the store has min <= value <= max and step > 0 in
\* every reachable state, and so has the binding extract_variables creates
\* by default for any variable name, the scaling variable included.
C15_BindingInvariant ==
    /\ \A n \in DOMAIN bindings : ValidBinding(bindings[n])
    /\ \A v \in Lower \cup Greek : ValidBinding(default_binding(v))

\* A character of a word: a letter, Latin or Greek, a digit or an underscore.
TokenChar(c) == c \in Lower \cup Upper \cup Greek \cup Digit \cup {"_"}

\* The standalone single-letter tokens of a text, Latin or Greek: the letters
\* with no character of a word next to them.
StandaloneAt(str, i) ==
    /\ str[i] \in Lower \cup Greek
    /\ (i > 1 => ~TokenChar(str[i - 1]))
    /\ (i < Len(str) => ~TokenChar(str[i + 1]))

StandaloneLetters(str) == {str[i] : i \in {j \in 1..Len(str) : StandaloneAt(str, j)}}

\* C16: the free variables, those whose sliders are shown, are exactly the
\* standalone single-letter tokens of the equation texts, Latin or Greek,
\* without the reserved letters t and s.
C16_FreeVariablesLatinOrGreek ==
    phase = "interactive" =>
        /\ free_variables(Cur) =
            UNION {StandaloneLetters(inputs[f][i]) :
                    f \in {"figure", "mirror", "sigma_tau"}, i \in 1..2}
                \ {"t", "s"}
        /\ {n \in DOMAIN var_map : ~var_map[n].hidden} = free_variables(Cur)

\* The values substituted in a compute: those of the bound variables and the
\* offsets of t and s.
BoundValues ==
    [n \in DOMAIN bindings \cup {"t", "s"} |->
        IF n = "t" THEN settings.t_offset
        ELSE IF n = "s" THEN settings.s_offset
        ELSE bindings[n].value]

\* Whole-token substitution: every standalone occurrence of a bound name
\* becomes its parenthesised value, and nothing else changes.
RECURSIVE Resolve(_, _, _)
Resolve(str, i, values) ==
    IF i > Len(str) THEN <<>>
    ELSE (IF StandaloneAt(str, i) /\ str[i] \in DOMAIN values
          THEN <<"(">> \o number_text(values[str[i]]) \o <<")">>
          ELSE <<str[i]>>)
         \o Resolve(str, i + 1, values)

\* C17: the equations sent to the backend are the equation texts with every
\* standalone occurrence of a bound single-letter name, Latin or Greek,
\* replaced by its parenthesised value and with nothing else altered.
C17_WholeTokenSubstitution ==
    \A k \in 1..Len(calls) : \A i \in 1..2 :
        /\ calls[k].figure[i] = Resolve(figure_equation[i], 1, BoundValues)
        /\ calls[k].mirror[i] = Resolve(mirror_equation[i], 1, BoundValues)
        /\ calls[k].sigma_tau[i] = Resolve(sigma_tau_equation[i], 1, BoundValues)

\* The request a compute issued in the current state sends: the equations
\* with the current values put in, the current View and the current settings.
CurrentRequest ==
    [view |-> view,
     mirror |-> [i \in 1..2 |-> substitute(mirror_equation[i], BoundValues)],
     figure |-> [i \in 1..2 |-> substitute(figure_equation[i], BoundValues)],
     sigma_tau |-> [i \in 1..2 |-> substitute(sigma_tau_equation[i], BoundValues)],
     method |-> settings.method,
     threshold |-> settings.threshold]

\* A step that edits an equation input, a binding's value or a setting.
EditStep ==
    \/ inputs' # inputs
    \/ settings' # settings
    \/ \E v \in DOMAIN bindings : bindings'[v].value # bindings[v].value

\* C18: every edit (equation input, slider, method, threshold or offset
\* control) issues exactly one compute; every compute sends exactly one request
\* to the backend, and that request carries the equations, bindings, View and
\* settings as they are once the edit is applied; a step that issues no
\* compute sends nothing to the backend.
C18_OneComputePerEdit ==
    /\ [](calls # <<>> => calls = <<CurrentRequest>>)
    /\ [][/\ EditStep => ComputeStep
          /\ ComputeStep =>
                Len(reflections') = Len(reflections) + 1 /\ Len(calls') = 1
          /\ ~ComputeStep => calls' = <<>>]_vars

\* A compute was just issued by an edit made under a zoomed view, with a
\* moved slider and a changed threshold.
C18_Witness ==
    /\ Len(calls) = 1
    /\ Len(reflections) = MaxEdits
    /\ view.scale # View.scale
    /\ settings.threshold = 16
    /\ \E v \in DOMAIN bindings : bindings[v].value = 3 * FP
    /\ calls[1].view = view /\ calls[1].threshold = 16

\* The surface shows dataset n under the current View, and the pixel buffer
\* holds that same frame.
Drawn(n) == canvas.frame = Frame(n, view) /\ buffer = Frame(n, view)

\* C19: under fairness of the promise reactions and of the animation frame,
\* whenever the latest issued compute has resolved, either a further edit
\* follows or a draw is eventually performed after which the surface shows
\* that dataset under the current View and the pixel buffer holds that frame.
C19_LatestEventuallyDrawn ==
    \A n \in 1..MaxRequests :
        (Len(reflections) = n /\ reflections[n].ok)
            ~> (Len(reflections) # n \/ Drawn(n))

\* The latest compute, issued by an edit after the first one, resolved and
\* was drawn under a zoomed view, and nothing is queued.
C19_Witness ==
    /\ Len(reflections) >= 2
    /\ reflections[Len(reflections)].ok
    /\ Drawn(Len(reflections))
    /\ view.scale # View.scale
    /\ Settled

\* The fixed order of the sliders: a Greek name before a Latin one, and two
\* names of the same alphabet alphabetically.
Precedes(a, b) ==
    IF (a \in Greek) # (b \in Greek)
    THEN a \in Greek
    ELSE CollationIndex(a) < CollationIndex(b)

\* C20: the container holds one slider for each variable that has been free,
\* visible or hidden, and they stand in the fixed order.
C20_SlidersInOrder ==
    LET children == var_container.children
    IN  /\ Len(children) = Cardinality(DOMAIN var_map)
        /\ {children[i] : i \in 1..Len(children)} = DOMAIN var_map
        /\ \A i, j \in 1..Len(children) :
                i < j => Precedes(children[i], children[j])

\* Edits have added and removed variables: at least four sliders are in the
\* container, and a visible one stands between two hidden ones.
C20_Witness ==
    LET children == var_container.children
    IN  /\ Len(children) >= 4
        /\ \E i \in 2..(Len(children) - 1) :
                /\ var_map[children[i - 1]].hidden
                /\ ~var_map[children[i]].hidden
                /\ var_map[children[i + 1]].hidden

\* The names of the sliders in the container whose name is in S, in order.
Kept(children, S) == SelectSeq(children, LAMBDA v : v \in S)

\* C21: slider identity. No step destroys a slider or puts an existing one
\* into the container again: the sliders that exist stay in the container in
\* the same places relative to each other, a step creates a slider only for a
\* name that has none (once, and the name is then free), and the container
\* never holds two sliders of one name.
C21_SlidersCreatedOnce ==
    [][LET old == DOMAIN var_map
           children == var_container.children
           after == var_container.children'
       IN  /\ old \subseteq DOMAIN var_map'
           /\ Kept(after, old) = children
           /\ Len(after) = Len(children) + Cardinality(DOMAIN var_map' \ old)
           /\ \A v \in DOMAIN var_map' \ old :
                /\ v \in free_variables(Cur)'
                /\ ~var_map'[v].hidden
                /\ \E i \in 1..Len(after) : after[i] = v]_vars

\* After edits that changed the set of free variables, a slider made by an
\* edit is hidden and the slider of x, hidden by an edit, is visible again.
C21_Witness ==
    /\ Len(reflections) >= 2
    /\ "x" \in DOMAIN var_map /\ ~var_map["x"].hidden
    /\ "a" \in DOMAIN var_map /\ var_map["a"].hidden
    /\ figure_equation[2] # default_settings.figure[2]

\* The proximity search as a function of the pointer position p, the View v
\* and the correspondence tuples `points` of the dataset.
\* The tuples that take part: those without an unknown component.
Known(t) == \A i \in 1..4 : t[i] # Null
\* The square of the surface distance from p to the point of tuple t in role i.
RoleDistance(v, p, t, i) == distance2(p, adjust_point(v, t[i]))
\* The square of a radius of `radius` pixels.
Radius2(radius) == (radius * SurfaceUnit) * (radius * SurfaceUnit)
\* The tuples whose point in role i lies within the radius.
Candidates(v, p, points, i, radius) ==
    {k \in 1..Len(points) :
        Known(points[k]) /\ RoleDistance(v, p, points[k], i) <= Radius2(radius)}
\* Role i has a point within the radius and none of its points is farther
\* from p than a point of role j within the radius.
NoFarther(v, p, points, i, j, radius) ==
    \E k \in Candidates(v, p, points, i, radius) :
        \A m \in Candidates(v, p, points, j, radius) :
            RoleDistance(v, p, points[k], i) <= RoleDistance(v, p, points[m], j)
\* The role selected: the first of the roles (1 reflection image, 2 figure
\* source, 3 mirror near figure, 4 mirror near reflection) whose minimum
\* distance is the smallest; 0 when no role has a point within the radius.
Selected(v, p, points, radius) ==
    LET best == {i \in 1..4 : \A j \in 1..4 : NoFarther(v, p, points, i, j, radius)}
    IN IF best = {} THEN 0 ELSE CHOOSE i \in best : \A j \in best : i <= j
\* The pointer move to p is a hover over a computed dataset.
Hovers(p) ==
    /\ Idle
    /\ ~(pointer # Null /\ drag_origin # Null)
    /\ reflection # 0 /\ reflections[reflection].ok
    /\ Step(mousemove(Cur, p))
\* The tuples of the current dataset.
CurrentPoints == data_points(reflections[reflection])

\* C22: role selection. When a hover finds a role with a point within the
\* hover radius, the tuples it highlights are tuples of the role whose
\* minimum distance is the smallest, the earlier role when two are equal:
\* the point of each in that role is within the radius, and one of them is at
\* the minimum distance.
C22_RoleSelection ==
    [][\A p \in HoverPoints :
        LET role == Selected(view, p, CurrentPoints, THRESHOLD)
            found == canvas'.highlight.points
        IN (Hovers(p) /\ role # 0) =>
            /\ canvas'.highlight # Null
            /\ \A k \in 1..Len(found) :
                    distance2(p, found[k][role]) <= Radius2(THRESHOLD)
            /\ \E k \in 1..Len(found) : \A j \in 1..4 :
                    \A m \in Candidates(view, p, CurrentPoints, j, THRESHOLD) :
                        distance2(p, found[k][role])
                            <= RoleDistance(view, p, CurrentPoints[m], j)
      ]_vars

\* Under the default view the pointer is at the same distance from the figure
\* point of one tuple and from the reflection point of a later one, and the
\* later tuple is the one highlighted.
C22_Witness ==
    /\ pointer = <<540, 240>>
    /\ canvas.highlight # Null
    /\ canvas.highlight.view = View
    /\ canvas.highlight.points =
            <<[i \in 1..4 |-> adjust_point(View, backend_points("quadratic")[7][i])]>>

\* C23: the tuples returned. A hover that finds a role highlights exactly the
\* tuples whose point in that role is within the hover radius, each once.
C23_AllWithinThreshold ==
    [][\A p \in HoverPoints :
        LET role == Selected(view, p, CurrentPoints, THRESHOLD)
            within == Candidates(view, p, CurrentPoints, role, THRESHOLD)
            found == canvas'.highlight.points
        IN (Hovers(p) /\ role # 0) =>
            /\ canvas'.highlight # Null
            /\ Len(found) = Cardinality(within)
            /\ {found[k] : k \in 1..Len(found)} =
                 {[i \in 1..4 |-> adjust_point(view, CurrentPoints[k][i])] :
                    k \in within}
      ]_vars

\* The hover highlights two tuples whose reflection points are both within the
\* radius, and not the tuple whose figure point is as near as the nearest of
\* them.
C23_Witness ==
    /\ pointer = <<420, 237>>
    /\ canvas.highlight # Null
    /\ canvas.highlight.view = View
    /\ canvas.highlight.points =
            <<[i \in 1..4 |-> adjust_point(View, backend_points("quadratic")[3][i])],
              [i \in 1..4 |-> adjust_point(View, backend_points("quadratic")[5][i])]>>

\* C24: radius expansion. A hover that finds no point within the initial
\* radius finds a point that lies within the radius enlarged by one increment,
\* and a hover with no point within the largest radius highlights nothing.
C24_RadiusExpansion ==
    [][\A p \in HoverPoints :
        Hovers(p) =>
            /\ (/\ Selected(view, p, CurrentPoints, THRESHOLD) = 0
                /\ Selected(view, p, CurrentPoints, THRESHOLD + 1) # 0)
                    => canvas'.highlight # Null
            /\ Selected(view, p, CurrentPoints, THRESHOLD * EXPAND + 1) = 0
                    => canvas'.highlight = Null
      ]_vars

\* Tuple t on the surface, its unknown components left unknown.
AdjustKnown(v, t) ==
    [i \in 1..4 |-> IF t[i] = Null THEN Null ELSE adjust_point(v, t[i])]

\* C25: unknown components take no part in the search. Every tuple a hover
\* highlights is a tuple of the dataset matched through one role in which its
\* point is known and within the hover radius of the pointer.
C25_UnknownExcluded ==
    [][\A p \in HoverPoints :
        LET found == canvas'.highlight.points
        IN (Hovers(p) /\ canvas'.highlight # Null) =>
            \E i \in 1..4 : \A k \in 1..Len(found) :
                \E m \in 1..Len(CurrentPoints) :
                    /\ found[k] = AdjustKnown(view, CurrentPoints[m])
                    /\ CurrentPoints[m][i] # Null
                    /\ RoleDistance(view, p, CurrentPoints[m], i)
                            <= Radius2(THRESHOLD * EXPAND)
      ]_vars

\* The dataset on the surface has tuples with unknown components, and a hover
\* over it has highlighted a tuple.
C25_Witness ==
    /\ canvas.highlight # Null
    /\ canvas.highlight.data = reflection
    /\ \E m \in 1..Len(CurrentPoints) : ~Known(CurrentPoints[m])
    /\ pointer = <<380, 240>>

\* C26: a hover with the pointer exactly at the surface position of a sampled
\* reflection point highlights the tuple of that point, whether or not the
\* other components of the tuple are known.
C26_ExactReflectionPointFound ==
    [][\A p \in HoverPoints :
        Hovers(p) =>
            \A m \in 1..Len(CurrentPoints) :
                (/\ CurrentPoints[m][1] # Null
                 /\ RoleDistance(view, p, CurrentPoints[m], 1) = 0)
                => /\ canvas'.highlight # Null
                   /\ \E k \in 1..Len(canvas'.highlight.points) :
                        canvas'.highlight.points[k]
                            = AdjustKnown(view, CurrentPoints[m])
      ]_vars

\* C27: the View is replaced, never written. No zoom, pan or reset assigns the
\* origin or the scale of the View instance that was current when the
\* handler began.
C27_ViewNeverWritten ==
    [][/\ \A deltaY \in ViewDeltas, shiftKey \in BOOLEAN :
            (Idle /\ Step(wheel(Cur, deltaY, shiftKey)))
                => ~wheel(Cur, deltaY, shiftKey).view_written
       /\ \A p \in ViewPoints :
            (Idle /\ Step(mousemove(Cur, p))) => ~mousemove(Cur, p).view_written
       /\ \A button \in Buttons :
            (Idle /\ Step(dblclick(Cur, button)))
                => ~dblclick(Cur, button).view_written
      ]_vars

\* What a hover or the pointer leaving the canvas may not change.
Retained ==
    /\ buffer' = buffer /\ view' = view /\ bindings' = bindings
    /\ reflection' = reflection /\ reflections' = reflections
    /\ raf' = raf /\ microtasks' = microtasks

\* C28: the pixel buffer is written only by an animation frame, with the
\* whole frame of a dataset whose compute resolved, drawn under the current
\* View; a hover and the pointer leaving the canvas restore the surface from
\* the buffer and change neither the buffer, the View, the current dataset
\* nor the bindings.
C28_BufferWrittenByDrawOnly ==
    [][/\ buffer' # buffer =>
            /\ FrameStep
            /\ \E r \in 1..Len(reflections) :
                    reflections[r].ok /\ buffer' = Frame(r, view)
       /\ \A p \in Points :
            (/\ Idle /\ ~(pointer # Null /\ drag_origin # Null)
             /\ Step(mousemove(Cur, p)))
            => (Retained /\ (reflection # 0 => canvas'.frame = buffer))
       /\ (Idle /\ Step(canvas_mouseleave(Cur)))
            => (Retained /\ canvas' = [frame |-> buffer, highlight |-> Null])
      ]_vars

\* A frame drawn under a zoomed view is in the buffer, and a hover has drawn
\* a highlight over the copy of it on the surface.
C28_Witness ==
    /\ canvas.highlight # Null
    /\ canvas.frame = buffer
    /\ buffer.data = reflection
    /\ buffer.view # View

\* Field f of the data of a persisted binding entry: Null when it does not
\* parse as a number.
Parsed(data, f) == IF data.shape = "object" THEN data[f] ELSE Null

\* Binding b is what the claim requires for the persisted data.
DecodedAs(b, data) ==
    LET value == Parsed(data, "value")
        min == Parsed(data, "min")
        max == Parsed(data, "max")
        step == Parsed(data, "step")
    IN  IF value = Null /\ min = Null /\ max = Null /\ step = Null
        THEN b = [value |-> 0, min |-> -256 * FP, max |-> 256 * FP, step |-> 1 * FP]
        ELSE /\ (min = Null /\ max = Null) => (b.min = -256 * FP /\ b.max = 256 * FP)
             /\ (min = Null /\ max # Null) => (b.min = max[1] /\ b.max = max[1])
             /\ (min # Null /\ max = Null) => (b.min = min[1] /\ b.max = min[1])
             /\ value = Null => 2 * b.value = b.min + b.max
             /\ value # Null =>
                    b.value = IF value[1] < b.min THEN b.min
                              ELSE IF value[1] > b.max THEN b.max
                              ELSE value[1]
             /\ b.min <= b.value /\ b.value <= b.max

IsolatedLatin(str) ==
    {str[i] : i \in {j \in 1..Len(str) :
        /\ str[j] \in Lower
        /\ (j = 1 \/ ~WordChar(str[j - 1]))
        /\ (j = Len(str) \/ ~WordChar(str[j + 1]))}}

\* The names currently free in some equation input.
FreeNow ==
    UNION {IsolatedLatin(inputs[f][i]) :
            f \in {"figure", "mirror", "sigma_tau"}, i \in 1..2} \ {"t", "s"}

C31_HighlightMatchesFrame ==
    canvas.highlight # Null =>
        /\ canvas.highlight.data = canvas.frame.data
        /\ canvas.highlight.view = canvas.frame.view

\* A drag is in progress: a pointer move pans the view.
Dragging == pointer # Null /\ drag_origin # Null

\* C32: a drag ends at release. A release of the primary button and the
\* pointer leaving the window end the drag; once no drag is in progress only a
\* press starts one, and a pointer move with no drag in progress leaves the
\* View as it is.
C32_DragEndsAtRelease ==
    [][/\ (Idle /\ ~locked /\ Step(mouseup(Cur, 0))) => ~Dragging'
       /\ (Idle /\ Step(window_mouseleave(Cur))) => ~Dragging'
       /\ (~Dragging /\ Dragging') =>
            \E p \in ViewPoints : ~locked /\ Step(mousedown(Cur, 0, p))
       /\ \A p \in ViewPoints :
            (Idle /\ ~Dragging /\ Step(mousemove(Cur, p))) => view' = view
      ]_vars

\* A drag has moved the view and has ended, the pointer is over the page and
\* drags nothing, and every scheduled redraw has run.
C32_Witness ==
    /\ view.origin # View.origin
    /\ pointer # Null /\ drag_origin = Null
    /\ raf = <<>>

\* C33: a pointer move either pans or hovers. During a drag it schedules one
\* redraw and writes neither the surface nor the buffer; with no drag in
\* progress it leaves the View and the scheduled draws as they are and
\* highlights what the search over the current dataset finds.
C33_PanOrHover ==
    [][\A p \in Points :
        /\ (Idle /\ Dragging /\ Step(mousemove(Cur, p)))
            => /\ raf' = Append(raf, [kind |-> "redraw", r |-> 0])
               /\ canvas' = canvas /\ buffer' = buffer
        /\ (Idle /\ ~Dragging /\ Step(mousemove(Cur, p)))
            => /\ view' = view /\ raf' = raf
               /\ (/\ reflection # 0 /\ reflections[reflection].ok
                   /\ Selected(view, p, CurrentPoints, THRESHOLD) # 0)
                  => canvas'.highlight # Null
      ]_vars

\* A drag has panned the view while the highlight of an earlier hover is
\* still on the surface, its redraw not yet run.
C33_Witness ==
    /\ Dragging
    /\ view.origin # View.origin
    /\ canvas.highlight # Null
    /\ raf # <<>>

\* C34: decoding persisted bindings is idempotent. When a persisted state is
\* loaded, the Binding decoded from each entry, written out as the page
\* writes a Binding and decoded again, is the same Binding.
C34_DecodeIdempotent ==
    [][(phase = "loading" /\ phase' = "interactive" /\ hash.bindings.shape = "list")
        => \A k \in 1..Len(hash.bindings.value) :
            LET b == bindings'[hash.bindings.value[k].name]
            IN decode_binding(encode_binding(b)) = b
      ]_vars

\* The persisted state holds the three equation pairs as the inputs show them
\* and one entry, with the four numbers of its Binding, for each free name.
PersistedCurrent ==
    /\ hash.kind = "json"
    /\ hash.mirror = [shape |-> "pair", value |-> inputs.mirror]
    /\ hash.figure = [shape |-> "pair", value |-> inputs.figure]
    /\ hash.sigma_tau = [shape |-> "pair", value |-> inputs.sigma_tau]
    /\ hash.bindings.shape = "list"
    /\ Len(hash.bindings.value) = Cardinality(FreeNow)
    /\ {hash.bindings.value[k].name : k \in 1..Len(hash.bindings.value)} = FreeNow
    /\ \A k \in 1..Len(hash.bindings.value) :
        LET e == hash.bindings.value[k]
        IN  /\ e.name \in DOMAIN bindings
            /\ e.data = [shape |-> "object",
                         value |-> <<bindings[e.name].value>>,
                         min |-> <<bindings[e.name].min>>,
                         max |-> <<bindings[e.name].max>>,
                         step |-> <<bindings[e.name].step>>]

\* C35: the persisted session state. A step that issues a compute leaves the
\* persisted state holding the current equation pairs and exactly the
\* bindings of the free variables; a pan, a zoom, a reset and a hover leave
\* the persisted state as it was.
C35_PersistedOnCompute ==
    [][/\ Len(reflections') > Len(reflections) => PersistedCurrent'
       /\ (\/ DblClick \/ MouseDown(Points) \/ Wheel(WheelDeltas)
           \/ MouseMove(Points) \/ MouseUp
           \/ CanvasMouseLeave \/ WindowMouseLeave) => hash' = hash
      ]_vars

\* A compute wrote the state while x had a Binding but was not free, and the
\* view was zoomed afterwards.
C35_Witness ==
    /\ hash.kind = "json"
    /\ "x" \in DOMAIN bindings
    /\ hash.bindings.value = <<>>
    /\ view.scale # 0

\* C36: the wheel in embedded mode. Without the Shift key a wheel event
\* leaves the View and the scheduled draws as they are; with the Shift key,
\* in the unlocked page, the View and the scheduled draws become what the same
\* event gives in main mode, the scale lowered by deltaY / SCALE_DAMPING.
C36_EmbeddedWheel ==
    [][\A deltaY \in ViewDeltas :
        /\ (Idle /\ embedded /\ Step(wheel(Cur, deltaY, FALSE)))
            => (view' = view /\ raf' = raf)
        /\ (Idle /\ embedded /\ ~locked /\ Step(wheel(Cur, deltaY, TRUE)))
            => LET main == wheel([Cur EXCEPT !.embedded = FALSE], deltaY, FALSE)
               IN  /\ view' = main.view
                   /\ raf' = main.raf
                   /\ view'.scale = view.scale - deltaY \div SCALE_DAMPING
      ]_vars

\* The embedded page was zoomed about a pointer off the centre: its redraw
\* is scheduled.
C36_Witness ==
    /\ embedded /\ ~locked
    /\ view.scale # 0
    /\ view.origin # View.origin
    /\ drag_origin = Null
    /\ raf # <<>>

\* C37: the swap button. When a click on it has been handled, with the four
\* input events it dispatches, the figure pair is the former mirror pair and
\* the mirror pair the former figure pair, in the inputs and in the equations
\* the page holds; the last of the requests sent is the request of the state
\* before the click with its two pairs exchanged; and the bindings are as they
\* were.
C37_SwapExchangesPairs ==
    [][\A responses \in [1..4 -> Responses] :
        (/\ Editable
         /\ Len(reflections') = Len(reflections) + 4
         /\ Step(swap_click(Cur, responses)))
        => /\ figure_equation' = mirror_equation
           /\ mirror_equation' = figure_equation
           /\ inputs'.figure = inputs.mirror
           /\ inputs'.mirror = inputs.figure
           /\ calls' # <<>>
           /\ calls'[Len(calls')] =
                [CurrentRequest EXCEPT !.figure = CurrentRequest.mirror,
                                       !.mirror = CurrentRequest.figure]
           /\ bindings' = bindings
      ]_vars

\* A click on the button has just been handled, after an edit put the
\* variable a in the mirror: a is now in the figure and x in the mirror, and
\* both have their bindings.
C37_Witness ==
    /\ Len(calls) = 4
    /\ figure_equation = << <<"t">>, <<"a">> >>
    /\ mirror_equation = << <<"t">>, <<"x">> >>
    /\ DOMAIN bindings = {"a", "x"}

====
